---- MODULE Spec2Model ----
(***************************************************************************)
(* Model of sdf-net/app/sdf_renderer.py: the command-line script that      *)
(* loads a pretrained SDF network, wraps it in GyroidLattice and runs one  *)
(* of the modes export / r360 / rsphere / sdf_grid / mesh extraction.      *)
(* The script is sequential; pc is the position in the __main__ block.     *)
(* Tensors are modelled by their shapes, model matrices by the rotation    *)
(* they denote, paths by their components.                                  *)
(***************************************************************************)
EXTENDS Integers, Sequences, FiniteSets, TLC

VARIABLES args, env, pc, status, org_net, net, dirs, renderer, model_matrix,
          angle, p, frames, files, modes, evals, torch_grid, sdf

vars == <<args, env, pc, status, org_net, net, dirs, renderer, model_matrix,
          angle, p, frames, files, modes, evals, torch_grid, sdf>>

(* ---------------- bounds of the model ---------------- *)
MaxPoses == 2
MaxN == 16

(* ---------------- optional values (None / value) ---------------- *)
None == <<>>
Some(v) == <<v>>
IsNone(o) == o = <<>>
Val(o) == o[1]

(* ---------------- program constants ---------------- *)
\* np.arange(0, 360, 10)
AngleStart == 0
AngleStop == 360
AngleStep == 10
\* np.linspace(., ., 150)
GridSamples == 150
\* default of --img-dir
ImgDirDefault == "_results/render_app/imgs"
SubDirs == {"normal", "rgb", "exr"}

(* ---------------- paths ---------------- *)
\* str.split(sep) on a sequence of characters
RECURSIVE SplitFrom(_, _, _, _)
SplitFrom(s, sep, i, cur) ==
    IF i > Len(s) THEN <<cur>>
    ELSE IF s[i] = sep THEN <<cur>> \o SplitFrom(s, sep, i + 1, <<>>)
    ELSE SplitFrom(s, sep, i + 1, Append(cur, s[i]))

Split(s, sep) == SplitFrom(s, sep, 1, <<>>)

Last(q) == q[Len(q)]

\* args.pretrained.split('/')[-1].split('.')[0]
ModelName(path) == Head(Split(Last(Split(path, "/")), "."))

\* os.path.join(args.img_dir, name) and os.path.join(ins_dir, t)
InsDir(a) == [base |-> a.img_dir, name |-> ModelName(Val(a.pretrained)), sub |-> ""]
SubDir(d, t) == [d EXCEPT !.sub = t]

(* ---------------- model matrices ---------------- *)
Identity == [axis |-> "none", deg |-> 0]

\* R.from_rotvec(np.radians(deg) * axis).as_matrix(): a rotation by a
\* multiple of 360 degrees is the identity matrix whatever the axis
RotMatrix(axis, deg) ==
    IF deg % 360 = 0 THEN Identity ELSE [axis |-> axis, deg |-> deg % 360]

InitialModelMatrix_NoRotate(a) == Identity

\* lines 161-165
InitialModelMatrix(a) ==
    IF ~IsNone(a.rotate) THEN RotMatrix("y", Val(a.rotate)) ELSE Identity

\* line 170
SpinMatrix(ang) == RotMatrix("diag", ang)

(* ---------------- tensor shapes ---------------- *)
RECURSIVE Prod(_)
Prod(s) == IF s = <<>> THEN 1 ELSE Head(s) * Prod(Tail(s))

Max2(a, b) == IF a >= b THEN a ELSE b

\* left-pad a shape with 1s to rank n
RECURSIVE PadTo(_, _)
PadTo(s, n) == IF Len(s) >= n THEN s ELSE PadTo(<<1>> \o s, n)

BroadcastOk(s, t) ==
    LET n == Max2(Len(s), Len(t))
        a == PadTo(s, n)
        b == PadTo(t, n)
    IN \A i \in 1..n : a[i] = b[i] \/ a[i] = 1 \/ b[i] = 1

\* shape of an elementwise binary operation (torch broadcasting)
Broadcast(s, t) ==
    LET n == Max2(Len(s), Len(t))
        a == PadTo(s, n)
        b == PadTo(t, n)
    IN [i \in 1..n |-> IF a[i] = 1 THEN b[i] ELSE a[i]]

\* x[:, k] of a rank-2 tensor
Column(s) == <<s[1]>>

\* t.reshape(-1, 1)
ReshapeColumn(s) == <<Prod(s), 1>>

\* output shape of the wrapped SDF network for a batch (N, 3); the network
\* class comes from lib.models, so its output rank is an input of the model
SdfNetOut(xshape, rank) == IF rank = 2 THEN <<xshape[1], 1>> ELSE <<xshape[1]>>

Failed == [ok |-> FALSE, shape |-> <<>>]
Tensor(s) == [ok |-> TRUE, shape |-> s]

\* GyroidLattice.forward, lines 63-78
forward(xshape, e) ==
    LET gyroid0 == Broadcast(Broadcast(Column(xshape), Column(xshape)),
                             Broadcast(Column(xshape), Column(xshape)))
        gyroid1 == ReshapeColumn(gyroid0)
        inner   == SdfNetOut(xshape, e.net_rank)
    IN IF ~e.use_cuda THEN Failed
       ELSE IF ~BroadcastOk(gyroid1, inner) THEN Failed
       ELSE Tensor(Broadcast(gyroid1, inner))

\* [[x,y,z] for x in K for y in K for z in K] as an (n^3, 3) array
GridShape(n) == <<n * n * n, 3>>

\* np.hstack takes ONE positional argument (a sequence of arrays)
np_hstack(argc) == IF argc = 1 THEN "ok" ELSE "TypeError"

(* ---------------- networks ---------------- *)
NoNet == [defined |-> FALSE, gyroid |-> FALSE, sol |-> FALSE, lod |-> None]
NoOrgNet == [defined |-> FALSE, jit |-> FALSE, loaded |-> FALSE, eval |-> FALSE]

load_state_dict_Skip(n) == n

\* org_net.load_state_dict(torch.load(args.pretrained)), line 127
load_state_dict(n) == [n EXCEPT !.loaded = TRUE]

\* GyroidLattice.__init__, lines 55-61: keeps a reference to sdf_net
GyroidLatticeInit(n) ==
    [defined |-> TRUE, gyroid |-> TRUE, sol |-> FALSE, lod |-> None]

\* SOL_NGLOD(net), lines 138 and 144
SOL_NGLOD(n) == [n EXCEPT !.sol = TRUE]

\* one use of the network (evaluation or save) with the state it is used in
Use(op) == [op |-> op, wrapped |-> net.defined /\ net.gyroid,
            loaded |-> org_net.defined /\ org_net.loaded]

ExportRequested_Never(a) == FALSE

\* line 137
ExportRequested(a) == ~IsNone(a.export)

SelectMode_GridFirst(a) ==
    IF a.sdf_grid THEN "sdf_grid"
    ELSE IF a.r360 THEN "r360"
    ELSE IF a.rsphere THEN "rsphere"
    ELSE "mesh"

\* the if / elif / elif / else chain of lines 167, 189, 208, 225
SelectMode(a) ==
    IF a.r360 THEN "r360"
    ELSE IF a.rsphere THEN "rsphere"
    ELSE IF a.sdf_grid THEN "sdf_grid"
    ELSE "mesh"

(* ---------------- inputs ---------------- *)
PretrainedPaths == { <<"m">>, <<"d", "/", "m", ".", "p">> }
ExportPaths == { "out.npz" }
RotateDegrees == { 0, 10, 370 }

Args ==
    [pretrained : {None} \cup {Some(x) : x \in PretrainedPaths},
     jit : BOOLEAN, sol : BOOLEAN,
     lod : {None, Some(1)},
     img_dir : {ImgDirDefault},
     exr : BOOLEAN, r360 : BOOLEAN, rsphere : BOOLEAN, sdf_grid : BOOLEAN,
     nb_poses : 0..MaxPoses,
     export : {None} \cup {Some(x) : x \in ExportPaths},
     rotate : {None} \cup {Some(d) : d \in RotateDegrees}]

Envs == [use_cuda : BOOLEAN, net_rank : {1, 2}]

Idle ==
    /\ status = "running"
    /\ org_net = NoOrgNet
    /\ net = NoNet
    /\ dirs = {}
    /\ renderer = FALSE
    /\ model_matrix = Identity
    /\ angle = AngleStart
    /\ p = 0
    /\ frames = <<>>
    /\ files = {}
    /\ modes = {}
    /\ evals = {}
    /\ sdf = Failed

Init ==
    /\ args \in Args
    /\ env \in Envs
    /\ pc = "name"
    /\ torch_grid = <<>>
    /\ Idle

Stop(st) == /\ status' = st
            /\ pc' = "end"

Running(at) == pc = at /\ status = "running"

(* ---------------- the __main__ block ---------------- *)
\* lines 118-121
GetModelName ==
    /\ Running("name")
    /\ IF ~IsNone(args.pretrained)
       THEN pc' = "construct" /\ status' = status
       ELSE Stop("AssertionError")
    /\ UNCHANGED <<args, env, org_net, net, dirs, renderer, model_matrix, angle,
                   p, frames, files, modes, evals, torch_grid, sdf>>

\* lines 123-125
ConstructNet ==
    /\ Running("construct")
    /\ org_net' = [defined |-> TRUE, jit |-> args.jit, loaded |-> FALSE,
                   eval |-> FALSE]
    /\ pc' = "load"
    /\ UNCHANGED <<args, env, status, net, dirs, renderer, model_matrix, angle,
                   p, frames, files, modes, evals, torch_grid, sdf>>

\* lines 127-130
LoadWeights ==
    /\ Running("load")
    /\ org_net' = [load_state_dict(org_net) EXCEPT !.eval = TRUE]
    /\ pc' = "wrap"
    /\ UNCHANGED <<args, env, status, net, dirs, renderer, model_matrix, angle,
                   p, frames, files, modes, evals, torch_grid, sdf>>

\* lines 131-135
WrapGyroid ==
    /\ Running("wrap")
    /\ net' = GyroidLatticeInit(org_net)
    /\ pc' = "export"
    /\ UNCHANGED <<args, env, status, org_net, dirs, renderer, model_matrix,
                   angle, p, frames, files, modes, evals, torch_grid, sdf>>

\* lines 137-141
Export ==
    /\ Running("export")
    /\ ExportRequested(args)
    /\ net' = SOL_NGLOD(net)
    /\ modes' = modes \cup {"export"}
    /\ evals' = evals \cup {Use("save")}
    /\ files' = files \cup {[path |-> Val(args.export), wrapped |-> net.gyroid]}
    /\ Stop("exit0")
    /\ UNCHANGED <<args, env, org_net, dirs, renderer, model_matrix, angle, p,
                   frames, torch_grid, sdf>>

\* lines 143-147
Configure ==
    /\ Running("export")
    /\ ~ExportRequested(args)
    /\ net' = [(IF args.sol THEN SOL_NGLOD(net) ELSE net) EXCEPT
                 !.lod = IF ~IsNone(args.lod) THEN args.lod ELSE @]
    /\ pc' = "dirs"
    /\ UNCHANGED <<args, env, status, org_net, dirs, renderer, model_matrix,
                   angle, p, frames, files, modes, evals, torch_grid, sdf>>

\* lines 149-157
MakeDirs ==
    /\ Running("dirs")
    /\ dirs' = dirs \cup {InsDir(args)} \cup {SubDir(InsDir(args), t) : t \in SubDirs}
    /\ pc' = "renderer"
    /\ UNCHANGED <<args, env, status, org_net, net, renderer, model_matrix,
                   angle, p, frames, files, modes, evals, torch_grid, sdf>>

\* line 159
MakeRenderer ==
    /\ Running("renderer")
    /\ renderer' = TRUE
    /\ pc' = "matrix"
    /\ UNCHANGED <<args, env, status, org_net, net, dirs, model_matrix, angle,
                   p, frames, files, modes, evals, torch_grid, sdf>>

\* lines 161-165
SetModelMatrix ==
    /\ Running("matrix")
    /\ model_matrix' = InitialModelMatrix(args)
    /\ pc' = "dispatch"
    /\ UNCHANGED <<args, env, status, org_net, net, dirs, renderer, angle, p,
                   frames, files, modes, evals, torch_grid, sdf>>

\* lines 167, 189, 208, 225: entering the selected branch
Dispatch ==
    /\ Running("dispatch")
    /\ pc' = SelectMode(args)
    /\ modes' = modes \cup {SelectMode(args)}
    /\ UNCHANGED <<args, env, status, org_net, net, dirs, renderer,
                   model_matrix, angle, p, frames, files, evals, torch_grid,
                   sdf>>

\* lines 168-186: one iteration of the spinning sequence
R360Frame ==
    /\ Running("r360")
    /\ angle < AngleStop
    /\ model_matrix' = SpinMatrix(angle)
    /\ frames' = Append(frames, [mode |-> "r360", mm |-> SpinMatrix(angle),
                                 idx |-> 100 * angle])
    /\ evals' = evals \cup {Use("shade")}
    /\ files' = files \cup {[dir |-> SubDir(InsDir(args), "rgb"),
                             idx |-> 100 * angle, ext |-> "png"]}
    /\ angle' = angle + AngleStep
    /\ UNCHANGED <<args, env, pc, status, org_net, net, dirs, renderer, p,
                   modes, torch_grid, sdf>>

\* line 168: the range is exhausted, the script ends
R360Done ==
    /\ Running("r360")
    /\ angle >= AngleStop
    /\ Stop("exit0")
    /\ UNCHANGED <<args, env, org_net, net, dirs, renderer, model_matrix, angle,
                   p, frames, files, modes, evals, torch_grid, sdf>>

\* lines 190-206: one iteration over the sampled camera origins
RSphereFrame ==
    /\ Running("rsphere")
    /\ p < args.nb_poses
    /\ frames' = Append(frames, [mode |-> "rsphere", mm |-> model_matrix,
                                 idx |-> p])
    /\ evals' = evals \cup {Use("shade")}
    /\ files' = files
                \cup {[dir |-> SubDir(InsDir(args), "normal"), idx |-> p,
                       ext |-> "png"]}
                \cup (IF args.exr
                      THEN {[dir |-> SubDir(InsDir(args), "exr"), idx |-> p,
                             ext |-> "exr"]}
                      ELSE {})
    /\ p' = p + 1
    /\ UNCHANGED <<args, env, pc, status, org_net, net, dirs, renderer,
                   model_matrix, angle, modes, torch_grid, sdf>>

\* line 192: no camera origin is left, the script ends
RSphereDone ==
    /\ Running("rsphere")
    /\ p >= args.nb_poses
    /\ Stop("exit0")
    /\ UNCHANGED <<args, env, org_net, net, dirs, renderer, model_matrix, angle,
                   p, frames, files, modes, evals, torch_grid, sdf>>

\* lines 211-219: build the grid on cuda:0 and evaluate the network on it
SdfGridEval ==
    /\ Running("sdf_grid")
    /\ IF env.use_cuda
       THEN /\ torch_grid' = GridShape(GridSamples)
            /\ evals' = evals \cup {Use("forward")}
            /\ sdf' = forward(GridShape(GridSamples), env)
            /\ IF forward(GridShape(GridSamples), env).ok
               THEN pc' = "sdf_dump" /\ status' = status
               ELSE Stop("RuntimeError")
       ELSE /\ Stop("RuntimeError")
            /\ UNCHANGED <<torch_grid, evals, sdf>>
    /\ UNCHANGED <<args, env, org_net, net, dirs, renderer, model_matrix, angle,
                   p, frames, files, modes>>

\* lines 221-223: np.hstack(sdf, grid) is called with two positional arguments
SdfGridDump ==
    /\ Running("sdf_dump")
    /\ IF np_hstack(2) = "ok"
       THEN /\ files' = files \cup {[path |-> "sdf.csv", rows |-> torch_grid[1]]}
            /\ Stop("exit1")
       ELSE /\ Stop(np_hstack(2))
            /\ files' = files
    /\ UNCHANGED <<args, env, org_net, net, dirs, renderer, model_matrix, angle,
                   p, frames, modes, evals, torch_grid, sdf>>

\* lines 240-246: build the grid on cuda:0 and evaluate the network on it
MeshEval ==
    /\ Running("mesh")
    /\ IF env.use_cuda
       THEN /\ torch_grid' = GridShape(GridSamples)
            /\ evals' = evals \cup {Use("forward")}
            /\ sdf' = forward(GridShape(GridSamples), env)
            /\ IF forward(GridShape(GridSamples), env).ok
               THEN pc' = "march" /\ status' = status
               ELSE Stop("RuntimeError")
       ELSE /\ Stop("RuntimeError")
            /\ UNCHANGED <<torch_grid, evals, sdf>>
    /\ UNCHANGED <<args, env, org_net, net, dirs, renderer, model_matrix, angle,
                   p, frames, files, modes>>

\* lines 248-254: march the cubes and save the mesh, the script ends
MeshMarch ==
    /\ Running("march")
    /\ files' = files \cup {[path |-> "./marched_gyroid.obj"]}
    /\ Stop("exit0")
    /\ UNCHANGED <<args, env, org_net, net, dirs, renderer, model_matrix, angle,
                   p, frames, modes, evals, torch_grid, sdf>>

Next ==
    \/ GetModelName
    \/ ConstructNet
    \/ LoadWeights
    \/ WrapGyroid
    \/ Export
    \/ Configure
    \/ MakeDirs
    \/ MakeRenderer
    \/ SetModelMatrix
    \/ Dispatch
    \/ R360Frame
    \/ R360Done
    \/ RSphereFrame
    \/ RSphereDone
    \/ SdfGridEval
    \/ SdfGridDump
    \/ MeshEval
    \/ MeshMarch

Spec == Init /\ [][Next]_vars

(* ---------------- GyroidLattice.forward on its own ---------------- *)
\* a call of forward on an (N, 3) batch, for every N up to MaxN
InitFwd ==
    /\ args \in {a \in Args : a.pretrained = Some(<<"m">>) /\ ~a.jit /\ ~a.sol
                              /\ ~a.exr /\ ~a.r360 /\ ~a.rsphere /\ a.sdf_grid
                              /\ IsNone(a.lod) /\ IsNone(a.export)
                              /\ IsNone(a.rotate) /\ a.nb_poses = 0}
    /\ env \in Envs
    /\ pc = "fwd_call"
    /\ torch_grid \in {<<n, 3>> : n \in 1..MaxN}
    /\ Idle

ForwardCall ==
    /\ Running("fwd_call")
    /\ sdf' = forward(torch_grid, env)
    /\ pc' = "fwd_ret"
    /\ UNCHANGED <<args, env, status, org_net, net, dirs, renderer,
                   model_matrix, angle, p, frames, files, modes, evals,
                   torch_grid>>

NextFwd == ForwardCall

SpecFwd == InitFwd /\ [][NextFwd]_vars

(* ---------------- properties ---------------- *)
WeightsGiven == ~IsNone(args.pretrained)
BeforeDispatch == {"name", "construct", "load", "wrap", "export", "config",
                   "dirs", "renderer", "matrix", "dispatch"}
BeforeExport == {"name", "construct", "load", "wrap", "export"}

\* C1: the weights are loaded before the network is wrapped in GyroidLattice,
\* a mode (export, r360, rsphere, sdf_grid, mesh) is started only after both,
\* and every evaluation or save uses the wrapped network with loaded weights.
C1_LoadWrapThenMode ==
    /\ net.defined => net.gyroid /\ org_net.defined /\ org_net.loaded
    /\ modes # {} => net.defined /\ net.gyroid /\ org_net.loaded
    /\ \A e \in evals : e.wrapped /\ e.loaded

C1_Witness ==
    /\ modes = {"mesh"}
    /\ \E e \in evals : e.op = "forward"
    /\ [path |-> "./marched_gyroid.obj"] \in files

\* C2: without --export and with weights given, once the branch is taken
\* exactly one mode has started, chosen by priority r360 > rsphere > sdf_grid
\* > mesh extraction; no second mode ever starts, frames belong to that mode
\* and only the mesh extraction saves ./marched_gyroid.obj, which it does when
\* it runs to the end.
C2_ExactlyOneMode ==
    (WeightsGiven /\ IsNone(args.export)) =>
        /\ Cardinality(modes) <= 1
        /\ pc \notin BeforeDispatch =>
             /\ args.r360 => modes = {"r360"}
             /\ ~args.r360 /\ args.rsphere => modes = {"rsphere"}
             /\ ~args.r360 /\ ~args.rsphere /\ args.sdf_grid => modes = {"sdf_grid"}
             /\ ~args.r360 /\ ~args.rsphere /\ ~args.sdf_grid => modes = {"mesh"}
        /\ \A i \in 1..Len(frames) : modes = {frames[i].mode}
        /\ [path |-> "./marched_gyroid.obj"] \in files => modes = {"mesh"}
        /\ modes = {"mesh"} /\ status = "exit0" =>
             [path |-> "./marched_gyroid.obj"] \in files

C2_Witness ==
    /\ args.rsphere /\ args.sdf_grid /\ ~args.r360
    /\ modes = {"rsphere"}
    /\ Len(frames) = 2
    /\ status = "exit0"

\* C3: with --export (and weights given) the run saves the wrapped model to
\* the export path and ends at once: no directory is created, no renderer is
\* built, no frame is rendered and no other file is written, whatever the
\* other flags are.
C3_ExportOnly ==
    (WeightsGiven /\ ~IsNone(args.export)) =>
        /\ dirs = {}
        /\ ~renderer
        /\ frames = <<>>
        /\ files \subseteq {[path |-> Val(args.export), wrapped |-> TRUE]}
        /\ modes \subseteq {"export"}
        /\ pc \notin BeforeExport =>
             /\ pc = "end"
             /\ status = "exit0"
             /\ files = {[path |-> Val(args.export), wrapped |-> TRUE]}

C3_Witness ==
    /\ ~IsNone(args.export)
    /\ args.r360 /\ args.sdf_grid /\ args.sol
    /\ status = "exit0"
    /\ files = {[path |-> Val(args.export), wrapped |-> TRUE]}

\* C4: when --sdf_grid selects the dense grid mode (on a machine with CUDA),
\* the 150^3 grid points are evaluated and ./sdf.csv holds the dumped data by
\* the time the process has ended.
C4_GridDumped ==
    (modes = {"sdf_grid"} /\ env.use_cuda /\ pc = "end") =>
        /\ torch_grid = <<GridSamples * GridSamples * GridSamples, 3>>
        /\ [path |-> "sdf.csv",
            rows |-> GridSamples * GridSamples * GridSamples] \in files

\* C5: GyroidLattice.forward on an input of shape (N, 3) returns a result of
\* shape (N,).
C5_ForwardShapeN ==
    (pc = "fwd_ret" /\ sdf.ok) => sdf.shape = <<torch_grid[1]>>

\* C6 as stated: every rendered frame, in r360 mode and in rsphere mode, uses
\* the rotation by --rotate degrees about the y axis, or the identity matrix
\* when --rotate is absent.
C6_RotateEveryFrame ==
    \A i \in 1..Len(frames) :
        frames[i].mm = IF IsNone(args.rotate) THEN Identity
                       ELSE IF Val(args.rotate) % 360 = 0 THEN Identity
                       ELSE [axis |-> "y", deg |-> Val(args.rotate) % 360]

\* C6 amended: every rsphere frame uses the rotation by --rotate degrees about
\* the y axis (the identity matrix when --rotate is absent); in r360 mode
\* --rotate is ignored and the frame of angle a = 0, 10, ..., 350 uses the
\* rotation by a degrees about the axis (-1,-1,-1)/sqrt(3).
C6_RotateSphereSpinR360 ==
    \A i \in 1..Len(frames) :
        /\ frames[i].mode = "rsphere" =>
             frames[i].mm = IF IsNone(args.rotate) THEN Identity
                            ELSE IF Val(args.rotate) % 360 = 0 THEN Identity
                            ELSE [axis |-> "y", deg |-> Val(args.rotate) % 360]
        /\ frames[i].mode = "r360" =>
             /\ frames[i].idx = 100 * AngleStep * (i - 1)
             /\ frames[i].mm = IF i = 1 THEN Identity
                               ELSE [axis |-> "diag", deg |-> AngleStep * (i - 1)]

C6_Witness ==
    /\ args.rotate = Some(10)
    /\ Len(frames) = 2
    /\ frames[2].mode = "rsphere"
    /\ frames[2].mm = [axis |-> "y", deg |-> 10]
====
